---- MODULE Spec2Model ----
(***************************************************************************)
(* Model of src/mexc_client.py (class MexcClient).                         *)
(*                                                                         *)
(*   Spec      fetch_historical_data, the range paginator (lines 87-122),  *)
(*             one step per statement group of its loop; the fetch         *)
(*             operation may return any JSON value or None.                *)
(*   FairSpec  the same loop, the fetch operation returning only a list,   *)
(*             an object or None, with weak fairness (a synchronous        *)
(*             single-threaded program always takes its next step).        *)
(*   SendSpec  _send_request and _generate_signature (lines 32-85).        *)
(*                                                                         *)
(* Datetimes are counted in ticks (TicksPerDay ticks a day) inside the     *)
(* closed range DatetimeMin..DatetimeMax that stands for datetime.min ..   *)
(* datetime.max: datetime + timedelta outside it raises OverflowError.     *)
(***************************************************************************)
EXTENDS Integers, Sequences, FiniteSets, TLC

VARIABLES
    \* ---- fetch_historical_data ----
    start_date,            \* argument start_date (ticks)
    end_date,              \* argument end_date (ticks)
    max_days_per_request,  \* argument max_days_per_request (days, any int)
    current_start,         \* local current_start (the cursor)
    chunk_end,             \* local chunk_end
    all_results,           \* local all_results
    response_data,         \* local response_data (the page of the last call)
    calls,                 \* log of fetch_function invocations <<start_ts, end_ts>>
    in_flight,             \* number of fetch_function calls not yet returned
    expected,              \* history: records of the recognized pages received
    error,                 \* exception that left fetch_historical_data, or "none"
    pc,                    \* position in fetch_historical_data
    \* ---- _send_request ----
    params,                \* the caller's mapping object (or NoneArg)
    orig_params,           \* history: the caller's mapping before the call
    now,                   \* int(time.time() * 1000)
    sorted_params,         \* local sorted_params
    signed_string,         \* the string _generate_signature digests
    signature,             \* local signature
    url_query,             \* the query part of local url (what is transmitted)
    outcome,               \* what requests.request / the server did
    result,                \* the value _send_request returned
    send_error,            \* exception that left _send_request, or "none"
    client,                \* self: api_key, secret_key, headers
    spc                    \* position in _send_request

pvars == <<start_date, end_date, max_days_per_request, current_start, chunk_end,
           all_results, response_data, calls, in_flight, expected, error, pc>>
svars == <<params, orig_params, now, sorted_params, signed_string, signature,
           url_query, outcome, result, send_error, client, spc>>
vars == <<pvars, svars>>

----------------------------------------------------------------------------
(* Bounds of the model *)

DatetimeMax == 6
TicksPerDay == 2
MaxSpanDays == 2
MaxPageLen == 2
MaxParams == 3

(* datetime.min, in ticks *)
DatetimeMin == 0

(* milliseconds in a day: timestamp() counts seconds, the code multiplies by 1000 *)
MsPerDay == 86400000

Min(a, b) == IF a <= b THEN a ELSE b

Ceil(a, b) == (a + b - 1) \div b

Datetimes == DatetimeMin..DatetimeMax
SpanDays == (-1)..MaxSpanDays
Records == {1, 2}

RECURSIVE SeqsUpTo(_, _)
SeqsUpTo(S, n) ==
    IF n = 0 THEN {<<>>}
    ELSE LET shorter == SeqsUpTo(S, n - 1)
         IN  shorter \cup {Append(s, x) : s \in {t \in shorter : Len(t) = n - 1}, x \in S}

RecordLists == SeqsUpTo(Records, MaxPageLen)

(* the largest number of calls any non-zero span can make inside the range *)
MaxCalls == Ceil(DatetimeMax - DatetimeMin, TicksPerDay)

----------------------------------------------------------------------------
(* Python values a fetch operation can return: None or a JSON value.       *)
(*   kind  none | list | dict | int | bool | str                           *)
(*   elems the items of a list, or of the `rows` list of a dict            *)
(*   rows  for a dict: "absent", "list" or "other" (rows is not a list)    *)
(*   n     the value of an int or bool; the number of other keys of a dict *)
(*   text  the value of a str                                              *)

MkPage(k, e, r, n, t) == [kind |-> k, elems |-> e, rows |-> r, n |-> n, text |-> t]

NonePage == MkPage("none", <<>>, "absent", 0, "")

ListPages == {MkPage("list", e, "absent", 0, "") : e \in RecordLists}

RowsPages == {MkPage("dict", e, "list", 0, "") : e \in RecordLists}

OtherDictPages ==
    {MkPage("dict", <<>>, "absent", n, "") : n \in 0..1}
    \cup {MkPage("dict", <<>>, "other", 0, "")}

ScalarPages ==
    {MkPage("int", <<>>, "absent", n, "") : n \in {0, 5}}
    \cup {MkPage("bool", <<>>, "absent", n, "") : n \in 0..1}
    \cup {MkPage("str", <<>>, "absent", 0, t) : t \in {"", "abc", "rows"}}

TypedPages == {NonePage} \cup ListPages \cup RowsPages \cup OtherDictPages

Pages == TypedPages \cup ScalarPages

(* bool(page): `if response_data:` *)
Truthy(p) ==
    CASE p.kind = "none" -> FALSE
      [] p.kind = "list" -> Len(p.elems) > 0
      [] p.kind = "dict" -> p.n + (IF p.rows = "absent" THEN 0 ELSE 1) > 0
      [] p.kind = "int"  -> p.n # 0
      [] p.kind = "bool" -> p.n # 0
      [] p.kind = "str"  -> p.text # ""

(* isinstance(response_data, list) *)
IsList(p) == p.kind = "list"

(* 'rows' in response_data: key test on a dict, substring test on a str,   *)
(* TypeError on an int or a bool (not iterable)                            *)
ContainsRows(p) ==
    CASE p.kind = "dict" -> IF p.rows # "absent" THEN "true" ELSE "false"
      [] p.kind = "str"  -> IF p.text = "rows" THEN "true" ELSE "false"
      [] OTHER           -> "TypeError"

(* isinstance(response_data.get('rows'), list): a str has no attribute get *)
RowsIsList(p) ==
    CASE p.kind = "dict" -> IF p.rows = "list" THEN "true" ELSE "false"
      [] OTHER           -> "AttributeError"

(* mutant of NormalizePage: the `rows` branch is missing *)
NormalizePageNoRows(results, p) ==
    IF ~Truthy(p) THEN [results |-> results, error |-> "none"]
    ELSE IF IsList(p) THEN [results |-> results \o p.elems, error |-> "none"]
    ELSE IF ContainsRows(p) = "TypeError" THEN [results |-> results, error |-> "TypeError"]
    ELSE [results |-> results, error |-> "none"]

(* lines 111-117: the records all_results holds afterwards and the         *)
(* exception raised on the way, if any                                     *)
NormalizePage(results, p) ==
    IF ~Truthy(p) THEN [results |-> results, error |-> "none"]
    ELSE IF IsList(p) THEN [results |-> results \o p.elems, error |-> "none"]
    ELSE IF ContainsRows(p) = "TypeError" THEN [results |-> results, error |-> "TypeError"]
    ELSE IF ContainsRows(p) = "false" THEN [results |-> results, error |-> "none"]
    ELSE IF RowsIsList(p) = "AttributeError"
         THEN [results |-> results, error |-> "AttributeError"]
    ELSE IF RowsIsList(p) = "true" THEN [results |-> results \o p.elems, error |-> "none"]
    ELSE [results |-> results, error |-> "none"]

(* timedelta(days=max_days_per_request), in ticks *)
Timedelta(days) == days * TicksPerDay

(* datetime + timedelta is defined inside datetime.min..datetime.max only *)
InDatetimeRange(t) == DatetimeMin <= t /\ t <= DatetimeMax

(* mutant of ChunkEnd: the chunk is not clipped to end_date *)
ChunkEndNoMin(cur, days, end) == cur + Timedelta(days)

(* line 98: min(current_start + timedelta(days=...), end_date) *)
ChunkEnd(cur, days, end) == Min(cur + Timedelta(days), end)

(* mutant of NextCursor: the cursor is not advanced *)
NextCursorStuck(cur, days) == cur

(* line 119: current_start += timedelta(days=...) *)
NextCursor(cur, days) == cur + Timedelta(days)

(* lines 102-103: int(dt.timestamp() * 1000) *)
Timestamp(t) == t * (MsPerDay \div TicksPerDay)

----------------------------------------------------------------------------
(* ---- _send_request and _generate_signature ---- *)

(* A dict is the sequence of its <<key, value>> items in insertion order,   *)
(* its keys distinct. A value is an int or a str.                           *)
IntVal(n) == [kind |-> "int", n |-> n, text |-> ""]

StrVal(t) == [kind |-> "str", n |-> 0, text |-> t]

ParamKeys == {"coin", "signature", "timestamp", "toAccountType"}

ParamValues == {IntVal(7), StrVal("7"), StrVal("a b")}

(* the order of str comparison on the keys:                                 *)
(* "coin" < "signature" < "timestamp" < "toAccountType"                     *)
KeyRank(k) ==
    CASE k = "coin"          -> 1
      [] k = "signature"     -> 2
      [] k = "timestamp"     -> 3
      [] k = "toAccountType" -> 4

DictKeys(d) == {d[i][1] : i \in 1..Len(d)}

(* d[k] = v: an existing key keeps its position, a new key goes last *)
DictSet(d, k, v) ==
    IF k \in DictKeys(d)
    THEN [i \in 1..Len(d) |-> IF d[i][1] = k THEN <<k, v>> ELSE d[i]]
    ELSE Append(d, <<k, v>>)

(* mutant of SortItems: the items stay in insertion order *)
SortItemsUnsorted(d) == d

(* line 69: dict(sorted(params.items())), the items by ascending key *)
RECURSIVE SortItems(_)
SortItems(d) ==
    IF d = <<>> THEN <<>>
    ELSE LET i == CHOOSE j \in 1..Len(d) :
                     \A m \in 1..Len(d) : KeyRank(d[j][1]) <= KeyRank(d[m][1])
             rest == [m \in 1..(Len(d) - 1) |-> IF m < i THEN d[m] ELSE d[m + 1]]
         IN  <<d[i]>> \o SortItems(rest)

Digit(n) ==
    CASE n = 0 -> "0" [] n = 1 -> "1" [] n = 2 -> "2" [] n = 3 -> "3" [] n = 4 -> "4"
      [] n = 5 -> "5" [] n = 6 -> "6" [] n = 7 -> "7" [] n = 8 -> "8" [] n = 9 -> "9"

(* str(n) of a non-negative int *)
RECURSIVE IntToStr(_)
IntToStr(n) == IF n < 10 THEN Digit(n) ELSE IntToStr(n \div 10) \o Digit(n % 10)

(* str(v), as urlencode applies it to a value that is no str *)
Str(v) == IF v.kind = "int" THEN IntToStr(v.n) ELSE v.text

(* urllib.parse.quote_plus on the strings of the model: a space becomes    *)
(* "+", letters and digits stay                                            *)
QuotePlus(s) == IF s = "a b" THEN "a+b" ELSE s

(* urllib.parse.urlencode(d): key=value joined by "&", in the order of d *)
RECURSIVE UrlEncode(_)
UrlEncode(d) ==
    IF d = <<>> THEN ""
    ELSE LET item == QuotePlus(d[1][1]) \o "=" \o QuotePlus(Str(d[1][2]))
         IN  IF Len(d) = 1 THEN item ELSE item \o "&" \o UrlEncode(Tail(d))

(* hmac.new(key, msg, sha256).hexdigest(): a function of key and message,  *)
(* kept symbolic (distinct inputs give distinct digests)                   *)
HmacSha256Hex(key, msg) == "hmac<" \o key \o "|" \o msg \o ">"

(* lines 42-48 *)
GenerateSignature(secret, d) == HmacSha256Hex(secret, UrlEncode(d))

(* line 66 *)
WithTimestamp(d, ts) == DictSet(d, "timestamp", IntVal(ts))

(* line 73: sorted_params['signature'] = signature *)
WithSignature(d, sig) == DictSet(d, "signature", StrVal(sig))

(* lines 66-75: the query string of the url built for the mapping d *)
SignedQuery(d, ts, secret) ==
    LET sorted == SortItems(WithTimestamp(d, ts))
    IN  UrlEncode(WithSignature(sorted, GenerateSignature(secret, sorted)))

(* lines 15-30 *)
MexcClient(api_key, secret_key) ==
    [api_key |-> api_key, secret_key |-> secret_key,
     headers |-> [apikey |-> api_key, content_type |-> "application/json"]]

Clients == {MexcClient("key", s) : s \in {"s1", "s2"}}

(* the params argument: None, or a dict *)
NoneArg == [none |-> TRUE, items |-> <<>>]

DictArg(d) == [none |-> FALSE, items |-> d]

RECURSIVE DictsUpTo(_)
DictsUpTo(n) ==
    IF n = 0 THEN {<<>>}
    ELSE LET shorter == DictsUpTo(n - 1)
         IN  shorter \cup
             {Append(d, <<k, v>>) : d \in {t \in shorter : Len(t) = n - 1},
                                    k \in ParamKeys, v \in ParamValues}

ParamDicts == {d \in DictsUpTo(MaxParams) : Cardinality(DictKeys(d)) = Len(d)}

(* the clock readings int(time.time() * 1000) *)
Clock == {999, 1000}

(* what the HTTP call does: requests.request raises, or a response with a  *)
(* status and a body arrives                                               *)
Outcomes ==
    {[kind |-> "exception", status |-> 0, body |-> "none"]}
    \cup {[kind |-> "response", status |-> st, body |-> b] :
            st \in {200, 304, 404, 500},
            b \in {"unparsable", "json_null", "json_list", "json_dict"}}

(* response.raise_for_status(): HTTPError for a 4xx or 5xx status *)
RaisesForStatus(status) == 400 <= status /\ status < 600

(* response.json() *)
ParseJson(body) == IF body = "json_null" THEN "None" ELSE body

(* lines 78-80: the exception the try block raises, or "none" *)
TryBlock(o) ==
    IF o.kind = "exception" THEN "ConnectionError"
    ELSE IF RaisesForStatus(o.status) THEN "HTTPError"
    ELSE IF o.body = "unparsable" THEN "JSONDecodeError"
    ELSE "none"

(* mutant of Caught: the `except Exception` clause is missing *)
CaughtOnlyHttpError(exc) == exc = "HTTPError"

(* lines 81-84: except HTTPError, then except Exception *)
Caught(exc) == exc = "HTTPError" \/ exc \in {"ConnectionError", "JSONDecodeError"}

(* lines 77-85 *)
SendResult(o) ==
    LET exc == TryBlock(o)
    IN  IF exc = "none" THEN [value |-> ParseJson(o.body), raised |-> "none"]
        ELSE IF Caught(exc) THEN [value |-> "None", raised |-> "none"]
        ELSE [value |-> "unset", raised |-> exc]

(* fetch_historical_data is not running *)
PIdle ==
    /\ start_date = DatetimeMin /\ end_date = DatetimeMin /\ max_days_per_request = 1
    /\ current_start = DatetimeMin /\ chunk_end = DatetimeMin
    /\ all_results = <<>> /\ response_data = NonePage /\ calls = <<>>
    /\ in_flight = 0 /\ expected = <<>> /\ error = "none" /\ pc = "idle"

SendInit ==
    /\ PIdle
    /\ client \in Clients
    /\ params \in {NoneArg} \cup {DictArg(d) : d \in ParamDicts}
    /\ orig_params = params
    /\ now \in Clock
    /\ sorted_params = <<>>
    /\ signed_string = ""
    /\ signature = ""
    /\ url_query = ""
    /\ outcome = [kind |-> "none", status |-> 0, body |-> "none"]
    /\ result = "unset"
    /\ send_error = "none"
    /\ spc = "start"

(* lines 62-75: timestamp, sort, sign, build the url *)
SignRequest ==
    /\ spc = "start"
    /\ LET d0 == IF params.none THEN <<>> ELSE params.items
           d1 == WithTimestamp(d0, now)
           sorted == SortItems(d1)
           sig == GenerateSignature(client.secret_key, sorted)
       IN  /\ params' = IF params.none THEN params ELSE DictArg(d1)
           /\ signed_string' = UrlEncode(sorted)
           /\ signature' = sig
           /\ sorted_params' = WithSignature(sorted, sig)
           /\ url_query' = UrlEncode(WithSignature(sorted, sig))
    /\ spc' = "sending"
    /\ UNCHANGED <<orig_params, now, outcome, result, send_error, client>>
    /\ UNCHANGED pvars

(* lines 77-85: the HTTP call and the handling of its outcome *)
Transmit ==
    /\ spc = "sending"
    /\ \E o \in Outcomes :
         /\ outcome' = o
         /\ result' = SendResult(o).value
         /\ send_error' = SendResult(o).raised
    /\ spc' = "returned"
    /\ UNCHANGED <<params, orig_params, now, sorted_params, signed_string, signature,
                   url_query, client>>
    /\ UNCHANGED pvars

SendNext == SignRequest \/ Transmit

SendSpec == SendInit /\ [][SendNext]_vars

(* _send_request is not running *)
SendIdle ==
    /\ params = NoneArg /\ orig_params = NoneArg /\ now = 0 /\ sorted_params = <<>>
    /\ signed_string = "" /\ signature = "" /\ url_query = ""
    /\ outcome = [kind |-> "none", status |-> 0, body |-> "none"]
    /\ result = "unset" /\ send_error = "none"
    /\ client = MexcClient("key", "s1") /\ spc = "idle"

----------------------------------------------------------------------------
(* ---- fetch_historical_data ---- *)

(* lines 91-92 *)
PInit ==
    /\ start_date \in Datetimes
    /\ end_date \in Datetimes
    /\ max_days_per_request \in SpanDays
    /\ current_start = start_date
    /\ chunk_end = start_date
    /\ all_results = <<>>
    /\ response_data = NonePage
    /\ calls = <<>>
    /\ in_flight = 0
    /\ expected = <<>>
    /\ error = "none"
    /\ pc = "loop"

Init == PInit /\ SendIdle

(* lines 97-103: the while test and the chunk bounds *)
WhileTest ==
    /\ pc = "loop"
    /\ IF current_start < end_date
       THEN IF InDatetimeRange(current_start + Timedelta(max_days_per_request))
            THEN /\ chunk_end' = ChunkEnd(current_start, max_days_per_request, end_date)
                 /\ pc' = "call"
                 /\ error' = error
            ELSE /\ pc' = "raised"
                 /\ error' = "OverflowError"
                 /\ chunk_end' = chunk_end
       ELSE /\ pc' = "done"
            /\ UNCHANGED <<chunk_end, error>>
    /\ UNCHANGED <<start_date, end_date, max_days_per_request, current_start,
                   all_results, response_data, calls, in_flight, expected>>
    /\ UNCHANGED svars

(* lines 105-109: fetch_function is invoked *)
FetchCall ==
    /\ pc = "call"
    /\ Len(calls) < MaxCalls
    /\ calls' = Append(calls, <<Timestamp(current_start), Timestamp(chunk_end)>>)
    /\ in_flight' = in_flight + 1
    /\ pc' = "fetch"
    /\ UNCHANGED <<start_date, end_date, max_days_per_request, current_start, chunk_end,
                   all_results, response_data, expected, error>>
    /\ UNCHANGED svars

(* the records of a page of a recognized shape (a raw list, or an object   *)
(* with a list-valued rows); feeds the history variable `expected` only    *)
RecognizedRecords(p) ==
    IF p.kind = "list" \/ (p.kind = "dict" /\ p.rows = "list") THEN p.elems ELSE <<>>

(* lines 105-109: fetch_function returns a page out of P *)
FetchReturn(P) ==
    /\ pc = "fetch"
    /\ \E page \in P :
         /\ response_data' = page
         /\ expected' = expected \o RecognizedRecords(page)
    /\ in_flight' = in_flight - 1
    /\ pc' = "normalize"
    /\ UNCHANGED <<start_date, end_date, max_days_per_request, current_start, chunk_end,
                   all_results, calls, error>>
    /\ UNCHANGED svars

(* lines 111-117 *)
Normalize ==
    /\ pc = "normalize"
    /\ LET r == NormalizePage(all_results, response_data)
       IN  /\ all_results' = r.results
           /\ error' = r.error
           /\ pc' = IF r.error = "none" THEN "advance" ELSE "raised"
    /\ UNCHANGED <<start_date, end_date, max_days_per_request, current_start, chunk_end,
                   response_data, calls, in_flight, expected>>
    /\ UNCHANGED svars

(* line 119 *)
Advance ==
    /\ pc = "advance"
    /\ current_start' = NextCursor(current_start, max_days_per_request)
    /\ pc' = "sleep"
    /\ UNCHANGED <<start_date, end_date, max_days_per_request, chunk_end, all_results,
                   response_data, calls, in_flight, expected, error>>
    /\ UNCHANGED svars

(* line 120: time.sleep(0.5) *)
Sleep ==
    /\ pc = "sleep"
    /\ pc' = "loop"
    /\ UNCHANGED <<start_date, end_date, max_days_per_request, current_start, chunk_end,
                   all_results, response_data, calls, in_flight, expected, error>>
    /\ UNCHANGED svars

FetchAny == FetchReturn(Pages)

FetchTyped == FetchReturn(TypedPages)

Next == WhileTest \/ FetchCall \/ FetchAny \/ Normalize \/ Advance \/ Sleep

Spec == Init /\ [][Next]_vars

NextTyped == WhileTest \/ FetchCall \/ FetchTyped \/ Normalize \/ Advance \/ Sleep

FairSpec == Init /\ [][NextTyped]_vars /\ WF_vars(NextTyped)

----------------------------------------------------------------------------
(* ---- properties of fetch_historical_data ---- *)

Span == Timedelta(max_days_per_request)

Terminated == pc \in {"done", "raised"}

(* no cursor position of the run leaves the datetime range when the span   *)
(* is added to it                                                          *)
StrideRepresentable ==
    InDatetimeRange(start_date + Ceil(end_date - start_date, Span) * Span)

(* the guard of FetchCall stops only a run whose span is zero *)
CapOnlyZeroSpan ==
    (pc = "call" /\ max_days_per_request # 0) => Len(calls) < MaxCalls

(* C1: with max_days_per_request >= 1 (and dates whose stride stays inside  *)
(* the datetime range) a finished fetch_historical_data has invoked the    *)
(* fetch operation exactly ceil((end_date - start_date) / max_span) times   *)
(* when start_date < end_date, whatever the pages held, and 0 times,       *)
(* returning the empty sequence, when start_date >= end_date.              *)
C1_CallCount ==
    (Terminated /\ max_days_per_request >= 1 /\ StrideRepresentable) =>
        IF start_date < end_date
        THEN Len(calls) = Ceil(end_date - start_date, Span)
        ELSE Len(calls) = 0 /\ pc = "done" /\ all_results = <<>>

C3_Concatenation ==
    pc \in {"loop", "call", "advance", "sleep", "done"} =>
        all_results = expected

(* a run that returned the records of a raw list and of an equal `rows`    *)
(* list, duplicates kept, in order                                         *)
C3_Witness ==
    /\ pc = "done"
    /\ Len(calls) = 2
    /\ response_data = MkPage("dict", <<2, 1>>, "list", 0, "")
    /\ all_results = <<2, 1, 2, 1>>

(* C4: a page that is neither a raw list nor an object with a list-valued  *)
(* rows never makes fetch_historical_data fail: the page is skipped.       *)
C4_UnrecognizedPageSkipped ==
    (response_data.kind \notin {"list"}
        /\ ~(response_data.kind = "dict" /\ response_data.rows = "list"))
    => error \notin {"TypeError", "AttributeError"}

(* C9: at most one request is in flight, no delay runs while a request is  *)
(* in flight, every delay comes after a completed chunk call and is        *)
(* followed by another chunk call.                                         *)
C9_DelayOnlyBetweenCalls ==
    /\ in_flight <= 1
    /\ pc = "sleep" =>
         /\ in_flight = 0
         /\ Len(calls) >= 1
         /\ current_start < end_date

ReturnsWithoutOverflow ==
    \/ start_date >= end_date
    \/ max_days_per_request >= 1 /\ StrideRepresentable

----------------------------------------------------------------------------
(* ---- properties of _send_request ---- *)

Returned == spc = "returned"

Built == spc \in {"sending", "returned"}

(* C5 as stated: no fault of the HTTP call leaves _send_request; a non-2xx *)
(* status, a network exception or an unparsable body return None, and only *)
(* a 2xx response returns the parsed body.                                 *)
C5_None_Unless2xx ==
    Returned =>
        /\ send_error = "none"
        /\ result = IF /\ outcome.kind = "response"
                       /\ outcome.status \in 200..299
                       /\ outcome.body # "unparsable"
                    THEN ParseJson(outcome.body)
                    ELSE "None"

(* C5 amended: no fault of the HTTP call leaves _send_request; a 4xx or    *)
(* 5xx status, a network exception or an unparsable body return None, and  *)
(* every other response (any status below 400) returns its parsed body.    *)
C5_None_UnlessBelow400 ==
    Returned =>
        /\ send_error = "none"
        /\ result = IF /\ outcome.kind = "response"
                       /\ outcome.status < 400
                       /\ outcome.body # "unparsable"
                    THEN ParseJson(outcome.body)
                    ELSE "None"

(* a network exception was turned into None *)
C5_Witness ==
    /\ Returned
    /\ outcome.kind = "exception"
    /\ result = "None"

Reorder(d, f) == [i \in 1..Len(d) |-> d[f[i]]]

(* C6: whatever the insertion order of the caller's mapping, with the same *)
(* timestamp and secret key the transmitted query string is the same       *)
(* string.                                                                 *)
C6_OrderIndependence ==
    (spc = "sending" /\ ~orig_params.none) =>
        \A f \in Permutations(1..Len(orig_params.items)) :
            SignedQuery(Reorder(orig_params.items, f), now, client.secret_key) = url_query

(* a mapping of several keys that was not inserted in key order *)
C6_Witness ==
    /\ spc = "sending"
    /\ ~orig_params.none
    /\ Len(orig_params.items) >= 2
    /\ SortItems(orig_params.items) # orig_params.items

(* C7: the transmitted query string is the signed string followed by one   *)
(* appended signature=<digest> parameter.                                  *)
C7_SignedIsTransmitted ==
    Built => url_query = signed_string \o "&signature=" \o signature

(* C8: after _send_request returns, the caller's mapping holds what it     *)
(* held before the call and the client is unchanged.                       *)
C8_NoSideEffects ==
    Returned => (params = orig_params /\ client \in Clients)

====
